---- MODULE Spec2Model ----
(***************************************************************************)
(* Model of autoscaler.py: the MicroserviceAutoscaler object, its          *)
(* per-service evaluation (adjust_replicas) and the driver loop of main(). *)
(*                                                                         *)
(* Units.  Latency is in milliseconds and the request rate in requests per *)
(* second, both integers.  CPU fractions and the two scaling factors are   *)
(* floats in the program; here they are integers counting hundredths       *)
(* (cpu 0.7 is 70, scale_out_factor 0.2 is 20).  Over the values used      *)
(* below the program's double arithmetic and the exact arithmetic of the   *)
(* model agree on every comparison, ceil and floor.                        *)
(*                                                                         *)
(* Cluster.  A deployment is one replica count: the controller has brought *)
(* status.replicas to spec.replicas before the next poll reads it.         *)
(***************************************************************************)
EXTENDS Integers, Sequences, FiniteSets

VARIABLES
    environ,    \* the process environment: configuration values, and the key (if any) whose value does not parse
    pc,         \* position of main(): "start", "fatal", "for", "sleep", "crashed"
    self,       \* the MicroserviceAutoscaler's fields, set by __init__
    idx,        \* position of the for loop in the services list
    replicas,   \* the cluster: replica count of each deployment
    evaluated,  \* the services evaluated so far in the current pass of the for loop
    last        \* the locals of the most recent adjust_replicas call

vars == <<environ, pc, self, idx, replicas, evaluated, last>>

----------------------------------------------------------------------------
(* Bounds of the model *)

\* MAX_REPLICAS set in the environment of the reference-like policies
MaxReplicasEnv == 10

\* how far above MAX_REPLICAS a deployment found in the cluster may be
OverMax == 2

----------------------------------------------------------------------------
(* Program constants *)

\* the 0.69 multiplier of the scale-in thresholds, in hundredths
HYSTERESIS == 69

\* one whole, in hundredths: the 1 of (1 + scale_out_factor) and (1 - scale_in_factor)
ONE == 100

services == << [service_name |-> "admin-service",   deployment_name |-> "admin-service"],
               [service_name |-> "faculty-service", deployment_name |-> "faculty-service"],
               [service_name |-> "student-service", deployment_name |-> "student-service"] >>

Deployments == { services[i].deployment_name : i \in 1..Len(services) }

----------------------------------------------------------------------------
(* Arithmetic helpers *)

Max(a, b) == IF a >= b THEN a ELSE b

Min(a, b) == IF a <= b THEN a ELSE b

\* math.ceil(n / ONE) for an integer numerator n
Ceil(n) == -((-n) \div ONE)

\* math.floor(n / ONE) for an integer numerator n
Floor(n) == n \div ONE

----------------------------------------------------------------------------
(* The environment the process is started in *)

ConfigKeys == {"LATENCY_THRESHOLD_MS", "CPU_THRESHOLD", "RPS_THRESHOLD",
               "SCALE_OUT_FACTOR", "SCALE_IN_FACTOR", "MIN_REPLICAS", "MAX_REPLICAS"}

\* the reference configuration (the defaults of the program), with MAX_REPLICAS set
Reference ==
    [LATENCY_THRESHOLD_MS |-> 300, CPU_THRESHOLD |-> 70, RPS_THRESHOLD |-> 200,
     SCALE_OUT_FACTOR |-> 20, SCALE_IN_FACTOR |-> 15,
     MIN_REPLICAS |-> 2, MAX_REPLICAS |-> MaxReplicasEnv]

Policies ==
    { Reference,
      \* a fleet that may be scaled to nothing
      [Reference EXCEPT !.MIN_REPLICAS = 0, !.MAX_REPLICAS = 4],
      \* factors that compute a very large and a negative candidate
      [Reference EXCEPT !.SCALE_OUT_FACTOR = 300, !.SCALE_IN_FACTOR = 150,
                        !.MIN_REPLICAS = 1, !.MAX_REPLICAS = 3],
      \* factors of zero
      [Reference EXCEPT !.SCALE_OUT_FACTOR = 0, !.SCALE_IN_FACTOR = 0,
                        !.MAX_REPLICAS = 4],
      \* tighter thresholds
      [Reference EXCEPT !.LATENCY_THRESHOLD_MS = 100, !.CPU_THRESHOLD = 50,
                        !.RPS_THRESHOLD = 100, !.MAX_REPLICAS = 4],
      \* bounds given the wrong way round
      [Reference EXCEPT !.MIN_REPLICAS = 5, !.MAX_REPLICAS = 3] }

\* unparsable names the key whose value is no number, "none" when all parse
Environments ==
    { [cfg |-> p, unparsable |-> "none"] : p \in Policies }
    \cup { [cfg |-> Reference, unparsable |-> k] : k \in ConfigKeys }

\* replica counts the deployments are found with, some outside [MIN_REPLICAS, MAX_REPLICAS]
InitialReplicas ==
    { [d \in Deployments |->
          CASE d = "admin-service"   -> a
            [] d = "faculty-service" -> f
            [] OTHER                 -> 3] :
        a \in {0, 5, MaxReplicasEnv + OverMax}, f \in {1, 3} }

----------------------------------------------------------------------------
(* What the metrics backend and the control plane answer in one evaluation *)

Snapshot(l, c, r) == [ok |-> TRUE, latency |-> l, cpu |-> c, rps |-> r]

\* ok = FALSE: a query raised
PrometheusAnswers ==
    { [ok |-> FALSE, latency |-> 0, cpu |-> 0, rps |-> 0],
      Snapshot(0, 0, 0),        \* every result set empty
      Snapshot(500, 50, 100),   \* latency breach
      Snapshot(100, 80, 100),   \* CPU breach
      Snapshot(100, 30, 250),   \* rps breach, latency and CPU low
      Snapshot(100, 30, 100),   \* everything low
      Snapshot(250, 60, 150),   \* everything in the band below the thresholds
      Snapshot(250, 30, 100),   \* only latency in the band
      Snapshot(100, 60, 100),   \* only CPU in the band
      Snapshot(100, 30, 150),   \* only rps in the band
      Snapshot(300, 70, 200),   \* exactly at the thresholds
      Snapshot(207, 30, 100) }  \* latency exactly at 0.69 * 300

\* The whole range of snapshots is explored on the first service of the list; the
\* other two are given a failed query and the snapshot below every reference
\* threshold (a breach of the tighter thresholds)
PrometheusAnswersFor(i) ==
    IF i = 1 THEN PrometheusAnswers
    ELSE { [ok |-> FALSE, latency |-> 0, cpu |-> 0, rps |-> 0], Snapshot(250, 60, 150) }

\* read_namespaced_deployment in get_current_replicas: the deployment, one without
\* status.replicas, or an exception
ReadAnswers == {"ok", "no_status", "error"}

\* scale_deployment: both calls succeed, the read raises, the patch raises
ScaleAnswers == {"ok", "read_error", "patch_error"}

----------------------------------------------------------------------------
(* MicroserviceAutoscaler *)

\* the keys __init__ parses
InitKeys == ConfigKeys \ {"MAX_REPLICAS"}

\* the fields before __init__ has run
NoFields ==
    [latency_threshold_ms |-> 0, cpu_threshold |-> 0, rps_threshold |-> 0,
     scale_out_factor |-> 0, scale_in_factor |-> 0, min_replicas |-> 0]

\* __init__ raises: int() or float() of a value that does not parse, or no cluster
\* configuration to load
init_raises(env, kube_ok) == env.unparsable \in InitKeys \/ ~kube_ok

\* the fields __init__ sets
init_fields(env) ==
    [latency_threshold_ms |-> env.cfg.LATENCY_THRESHOLD_MS,
     cpu_threshold        |-> env.cfg.CPU_THRESHOLD,
     rps_threshold        |-> env.cfg.RPS_THRESHOLD,
     scale_out_factor     |-> env.cfg.SCALE_OUT_FACTOR,
     scale_in_factor      |-> env.cfg.SCALE_IN_FACTOR,
     min_replicas         |-> env.cfg.MIN_REPLICAS]

\* get_metrics_from_prometheus: the three values, zeros when a query raised;
\* raised tells whether an exception leaves the method
get_metrics_from_prometheus(answer) ==
    IF answer.ok
    THEN [raised |-> FALSE, latency |-> answer.latency, cpu |-> answer.cpu, rps |-> answer.rps]
    ELSE [raised |-> FALSE, latency |-> 0, cpu |-> 0, rps |-> 0]

\* get_current_replicas answering 1, not 0, when the count is missing or the read raised
get_current_replicas_one(deployment_name, answer) ==
    CASE answer = "ok"        -> [raised |-> FALSE,
                                  value  |-> IF replicas[deployment_name] # 0
                                             THEN replicas[deployment_name] ELSE 0]
      [] answer = "no_status" -> [raised |-> FALSE, value |-> 1]
      [] OTHER                -> [raised |-> FALSE, value |-> 1]

\* get_current_replicas: status.replicas, 0 when it is missing or the read raised
get_current_replicas(deployment_name, answer) ==
    CASE answer = "ok"        -> [raised |-> FALSE,
                                  value  |-> IF replicas[deployment_name] # 0
                                             THEN replicas[deployment_name] ELSE 0]
      [] answer = "no_status" -> [raised |-> FALSE, value |-> 0]
      [] OTHER                -> [raised |-> FALSE, value |-> 0]

\* int(os.getenv("MAX_REPLICAS", 50)) raises ValueError
max_replicas_raises == environ.unparsable = "MAX_REPLICAS"

\* the clamping without its second assignment (no upper bound)
clamp_replicas_no_max(n) == Max(self.min_replicas, n)

\* the clamping without its first assignment (no lower bound)
clamp_replicas_no_min(n) == Min(environ.cfg.MAX_REPLICAS, n)

\* the two clamping assignments of scale_deployment
clamp_replicas(n) == Min(environ.cfg.MAX_REPLICAS, Max(self.min_replicas, n))

\* scale_deployment without its except clause: the exception leaves the method
scale_deployment_uncaught(deployment_name, n, answer) ==
    IF answer = "read_error" \/ max_replicas_raises \/ answer = "patch_error"
    THEN [raised |-> TRUE,  ok |-> FALSE, count |-> replicas[deployment_name]]
    ELSE [raised |-> FALSE, ok |-> TRUE,  count |-> clamp_replicas(n)]

\* scale_deployment: ok is the value returned, count the deployment's replica count
\* when the method returns
scale_deployment(deployment_name, n, answer) ==
    IF answer = "read_error" \/ max_replicas_raises \/ answer = "patch_error"
    THEN [raised |-> FALSE, ok |-> FALSE, count |-> replicas[deployment_name]]
    ELSE [raised |-> FALSE, ok |-> TRUE,  count |-> clamp_replicas(n)]

\* the condition of the if branch of adjust_replicas
scale_out_condition(m) ==
    \/ m.latency > self.latency_threshold_ms
    \/ m.cpu > self.cpu_threshold
    \/ m.rps > self.rps_threshold

\* the elif condition with or for and
scale_in_condition_or(m) ==
    \/ m.latency * ONE < HYSTERESIS * self.latency_threshold_ms
    \/ m.cpu * ONE < HYSTERESIS * self.cpu_threshold

\* the elif condition asking for a low request rate as well
scale_in_condition_with_rps(m) ==
    /\ m.latency * ONE < HYSTERESIS * self.latency_threshold_ms
    /\ m.cpu * ONE < HYSTERESIS * self.cpu_threshold
    /\ m.rps * ONE < HYSTERESIS * self.rps_threshold

\* the condition of the elif branch: m < 0.69 * threshold, in hundredths
scale_in_condition(m) ==
    /\ m.latency * ONE < HYSTERESIS * self.latency_threshold_ms
    /\ m.cpu * ONE < HYSTERESIS * self.cpu_threshold

\* new_replicas of the if branch with the factor subtracted
scale_out_replicas_minus(current_replicas) ==
    Ceil(current_replicas * (ONE - self.scale_out_factor))

\* new_replicas of the if branch rounded down
scale_out_replicas_floor(current_replicas) ==
    Floor(current_replicas * (ONE + self.scale_out_factor))

\* new_replicas of the if branch
scale_out_replicas(current_replicas) ==
    Ceil(current_replicas * (ONE + self.scale_out_factor))

\* new_replicas of the elif branch with the factor added
scale_in_replicas_plus(current_replicas) ==
    Max(self.min_replicas, Floor(current_replicas * (ONE + self.scale_in_factor)))

\* new_replicas of the elif branch
scale_in_replicas(current_replicas) ==
    Max(self.min_replicas, Floor(current_replicas * (ONE - self.scale_in_factor)))

\* the branch adjust_replicas takes
branch_of(m) ==
    IF scale_out_condition(m) THEN "out"
    ELSE IF scale_in_condition(m) THEN "in"
    ELSE "none"

\* the locals before any call of adjust_replicas
NoCall ==
    [deployment |-> "", metrics_ok |-> TRUE, latency |-> 0, cpu |-> 0, rps |-> 0,
     read |-> "ok", before |-> 0, current_replicas |-> 0, branch |-> "none",
     new_replicas |-> 0, scaled |-> FALSE, raised |-> FALSE]

\* adjust_replicas for services[i]: the whole method, with the answers of the
\* metrics backend (pa) and of the control plane (ra, sa)
adjust_replicas(i, pa, ra, sa) ==
    LET d   == services[i].deployment_name
        m   == get_metrics_from_prometheus(pa)
        cur == get_current_replicas(d, ra)
        br  == branch_of(m)
        new == CASE br = "out" -> scale_out_replicas(cur.value)
                 [] br = "in"  -> scale_in_replicas(cur.value)
                 [] OTHER      -> 0
        res == IF br = "none"
               THEN [raised |-> FALSE, ok |-> FALSE, count |-> replicas[d]]
               ELSE scale_deployment(d, new, sa)
        exc == m.raised \/ cur.raised \/ res.raised
    IN  /\ pc = "for"
        /\ idx = i
        /\ replicas' = IF exc THEN replicas ELSE [replicas EXCEPT ![d] = res.count]
        /\ last' = [deployment |-> d, metrics_ok |-> pa.ok,
                    latency |-> m.latency, cpu |-> m.cpu, rps |-> m.rps,
                    read |-> ra, before |-> replicas[d], current_replicas |-> cur.value,
                    branch |-> br, new_replicas |-> new, scaled |-> res.ok,
                    raised |-> exc]
        /\ evaluated' = Append(evaluated, services[i].service_name)
        /\ IF exc
           THEN pc' = "crashed" /\ idx' = idx
           ELSE IF i = Len(services)
           THEN pc' = "sleep" /\ idx' = idx
           ELSE pc' = "for" /\ idx' = i + 1
        /\ UNCHANGED <<environ, self>>

----------------------------------------------------------------------------
(* main *)

\* autoscaler = MicroserviceAutoscaler(): an exception ends the process
Startup ==
    /\ pc = "start"
    /\ \E kube_ok \in BOOLEAN :
          IF init_raises(environ, kube_ok)
          THEN pc' = "fatal" /\ self' = self
          ELSE pc' = "for" /\ self' = init_fields(environ)
    /\ UNCHANGED <<environ, idx, replicas, evaluated, last>>

\* scale_deployment is called, and the control plane asked, only in the two scaling
\* branches
ScaleAnswersFor(pa) ==
    IF branch_of(get_metrics_from_prometheus(pa)) = "none" THEN {"ok"} ELSE ScaleAnswers

\* one step of the for loop
Evaluate ==
    \E i \in 1..Len(services) :
      \E pa \in PrometheusAnswersFor(i), ra \in ReadAnswers :
        \E sa \in ScaleAnswersFor(pa) :
          adjust_replicas(i, pa, ra, sa)

\* time.sleep(30), then the while loop starts the for loop again
Sleep ==
    /\ pc = "sleep"
    /\ pc' = "for"
    /\ idx' = 1
    /\ evaluated' = << >>
    /\ UNCHANGED <<environ, self, replicas, last>>

Init ==
    /\ environ \in Environments
    /\ pc = "start"
    /\ self = NoFields
    /\ idx = 1
    /\ replicas \in InitialReplicas
    /\ evaluated = << >>
    /\ last = NoCall

Next == Startup \/ Evaluate \/ Sleep

Spec == Init /\ [][Next]_vars

----------------------------------------------------------------------------
(* A service under sustained load: every snapshot breaches a threshold and the *)
(* control plane answers every read and every write                           *)

BreachInit ==
    /\ environ \in { e \in Environments : e.unparsable = "none" }
    /\ pc = "for"
    /\ self = init_fields(environ)
    /\ idx = 1
    /\ replicas \in InitialReplicas
    /\ evaluated = << >>
    /\ last = NoCall

EvaluateBreach ==
    \E i \in 1..Len(services) :
      \E pa \in PrometheusAnswers :
          /\ pa.ok
          /\ scale_out_condition(get_metrics_from_prometheus(pa))
          /\ adjust_replicas(i, pa, "ok", "ok")

BreachNext == EvaluateBreach \/ Sleep

BreachSpec == BreachInit /\ [][BreachNext]_vars /\ WF_vars(EvaluateBreach) /\ WF_vars(Sleep)

----------------------------------------------------------------------------
(* Vocabulary of the properties *)

\* adjust_replicas has been called; last holds its locals
Called == last.deployment # ""

\* the bounds of the policy
MinReplicas == self.min_replicas

MaxReplicas == environ.cfg.MAX_REPLICAS

\* the replica count of the deployment the last call was about, after the call
CountAfter == replicas[last.deployment]

\* the last call's scale_deployment returned True: CountAfter is what it wrote
Wrote == Called /\ last.scaled

\* the last snapshot, against the thresholds
LatencyBreach == last.latency > self.latency_threshold_ms

CpuBreach == last.cpu > self.cpu_threshold

RpsBreach == last.rps > self.rps_threshold

AnyBreach == LatencyBreach \/ CpuBreach \/ RpsBreach

\* strictly between 0.69 * threshold and threshold
InBand(v, threshold) == HYSTERESIS * threshold < v * ONE /\ v < threshold

LatencyLow == last.latency * ONE < HYSTERESIS * self.latency_threshold_ms

CpuLow == last.cpu * ONE < HYSTERESIS * self.cpu_threshold

ZeroMetrics == last.latency = 0 /\ last.cpu = 0 /\ last.rps = 0

\* the count an evaluation with the last call's metrics writes when it reads c and
\* its write succeeds; c itself when it takes no scaling branch
SecondCount(c) ==
    CASE last.branch = "out" -> clamp_replicas(scale_out_replicas(c))
      [] last.branch = "in"  -> clamp_replicas(scale_in_replicas(c))
      [] OTHER               -> c

\* the reference's clamp, ceil and floor, written out
RefClamp(x, lo, hi) == IF x < lo THEN lo ELSE IF x > hi THEN hi ELSE x

RefFloor(n) == (n - (n % ONE)) \div ONE

RefCeil(n) == IF n % ONE = 0 THEN RefFloor(n) ELSE RefFloor(n) + 1

----------------------------------------------------------------------------
(* C1 *)

\* C1 as stated: after a cycle whose write was applied, a second evaluation with
\* the same metrics and the count just written changes nothing.
C1_SecondCycleNoChange ==
    (Wrote /\ MinReplicas <= MaxReplicas) => SecondCount(CountAfter) = CountAfter

\* C1, amended: after a cycle whose write was applied, a second evaluation with the
\* same metrics and the count just written never moves the count back (not below
\* it after a scale-out, not above it after a scale-in), and changes nothing once
\* the count written is max_replicas (scale-out) or min_replicas (scale-in).
C1_NoReversal ==
    (Wrote /\ MinReplicas <= MaxReplicas) =>
        /\ last.branch = "out" => SecondCount(CountAfter) >= CountAfter
        /\ last.branch = "in"  => SecondCount(CountAfter) <= CountAfter
        /\ (last.branch = "out" /\ CountAfter = MaxReplicas) =>
               SecondCount(CountAfter) = CountAfter
        /\ (last.branch = "in" /\ CountAfter = MinReplicas) =>
               SecondCount(CountAfter) = CountAfter

\* a scale-out from below max_replicas was clamped to max_replicas and written
C1_Witness ==
    /\ Wrote /\ MinReplicas <= MaxReplicas
    /\ last.branch = "out"
    /\ last.current_replicas < MaxReplicas
    /\ last.new_replicas > MaxReplicas
    /\ CountAfter = MaxReplicas

----------------------------------------------------------------------------
(* C2 *)

\* C2: every replica count scale_deployment writes lies in
\* [min_replicas, max_replicas], provided min_replicas <= max_replicas.
C2_WrittenWithinBounds ==
    (Wrote /\ MinReplicas <= MaxReplicas) =>
        (MinReplicas <= CountAfter /\ CountAfter <= MaxReplicas)

\* the factors computed a negative candidate, and min_replicas was written
C2_Witness ==
    /\ Wrote /\ MinReplicas <= MaxReplicas
    /\ last.branch = "in"
    /\ last.current_replicas * (ONE - self.scale_in_factor) < 0
    /\ CountAfter = MinReplicas

----------------------------------------------------------------------------
(* C3 *)

\* C3 as stated: with latency above its threshold, the count written is never
\* below the count read, whatever that count was.
C3_BreachNeverShrinks ==
    (Wrote /\ LatencyBreach) => CountAfter >= last.current_replicas

\* C3, amended: with latency above its threshold and a count read that is not
\* above max_replicas, the count written is never below the count read.
C3_BreachNeverShrinksWithinMax ==
    (Wrote /\ LatencyBreach /\ last.current_replicas <= MaxReplicas) =>
        CountAfter >= last.current_replicas

\* a latency breach grew a deployment
C3_Witness ==
    /\ Wrote /\ LatencyBreach
    /\ last.read = "ok"
    /\ last.current_replicas <= MaxReplicas
    /\ CountAfter > last.current_replicas
    /\ last.current_replicas > 0

----------------------------------------------------------------------------
(* C4 *)

\* C4 as stated: no dimension above its threshold and one of latency, CPU, rps
\* strictly inside its band: nothing is scaled.
C4_DeadZoneAnyDimension ==
    (/\ Called
     /\ ~AnyBreach
     /\ \/ InBand(last.latency, self.latency_threshold_ms)
        \/ InBand(last.cpu, self.cpu_threshold)
        \/ InBand(last.rps, self.rps_threshold))
    => (last.branch = "none" /\ ~last.scaled /\ CountAfter = last.before)

\* C4, amended: no dimension above its threshold and latency or CPU strictly
\* inside its band: nothing is scaled.
C4_DeadZoneLatencyOrCpu ==
    (/\ Called
     /\ ~AnyBreach
     /\ \/ InBand(last.latency, self.latency_threshold_ms)
        \/ InBand(last.cpu, self.cpu_threshold))
    => (last.branch = "none" /\ ~last.scaled /\ CountAfter = last.before)

\* latency alone is inside its band, CPU and rps are low, and nothing was scaled
C4_Witness ==
    /\ Called
    /\ ~AnyBreach
    /\ InBand(last.latency, self.latency_threshold_ms)
    /\ CpuLow
    /\ ~InBand(last.rps, self.rps_threshold)
    /\ last.branch = "none"
    /\ CountAfter = last.before

----------------------------------------------------------------------------
(* C5 *)

\* C5 as stated: with an all-zero snapshot the scale-out branch is never taken
\* and the count after the cycle is never above the count read.
C5_ZeroNeverAboveCurrent ==
    (Called /\ ZeroMetrics) =>
        (last.branch # "out" /\ (last.scaled => CountAfter <= last.current_replicas))

\* C5, amended: with an all-zero snapshot the scale-out branch is never taken; a
\* write leaves a count that is never above the larger of the count read and
\* min_replicas, and without a write the count is unchanged.
C5_ZeroNeverScalesOut ==
    (Called /\ ZeroMetrics) =>
        /\ last.branch # "out"
        /\ last.scaled => CountAfter <= Max(last.current_replicas, MinReplicas)
        /\ ~last.scaled => CountAfter = last.before

\* the snapshot substituted for a failed query shrank a deployment
C5_Witness ==
    /\ Called /\ ZeroMetrics /\ ~last.metrics_ok
    /\ last.branch = "in"
    /\ last.scaled
    /\ CountAfter < last.current_replicas

----------------------------------------------------------------------------
(* C6 *)

\* the reference's target for the last call, for a policy with
\* min_replicas <= max_replicas; the count read when it gives NoChange
C6_ReferenceTarget ==
    IF AnyBreach
    THEN RefClamp(RefCeil(last.current_replicas * (ONE + self.scale_out_factor)),
                  MinReplicas, MaxReplicas)
    ELSE IF LatencyLow /\ CpuLow
    THEN RefClamp(RefFloor(last.current_replicas * (ONE - self.scale_in_factor)),
                  MinReplicas, MaxReplicas)
    ELSE last.current_replicas

\* C6: the branch taken is scale-out on any breach, else scale-in when latency and
\* CPU are both below 0.69 of their thresholds (rps playing no part), else none;
\* the count written is the reference's clamped target; 5 replicas with latency
\* 500 and factor 0.2 give 6, 10 replicas with latency 100, CPU 0.3, factor 0.15
\* and min 2 give 8.
C6_DecisionMatchesReference ==
    (Called /\ MinReplicas <= MaxReplicas) =>
        /\ last.branch = (IF AnyBreach THEN "out"
                          ELSE IF LatencyLow /\ CpuLow THEN "in" ELSE "none")
        /\ last.scaled => CountAfter = C6_ReferenceTarget
        /\ ~last.scaled => CountAfter = last.before
        /\ last.branch = "none" => ~last.scaled
        /\ (/\ last.scaled /\ last.latency = 500 /\ last.current_replicas = 5
            /\ self.scale_out_factor = 20 /\ MaxReplicas >= 6) => CountAfter = 6
        /\ (/\ last.scaled /\ last.latency = 100 /\ last.cpu = 30 /\ ~RpsBreach
            /\ last.current_replicas = 10 /\ self.scale_in_factor = 15
            /\ self.latency_threshold_ms = 300 /\ self.cpu_threshold = 70
            /\ MinReplicas = 2 /\ MaxReplicas >= 8) => CountAfter = 8

\* the scale-in scenario of the reference: 10 replicas became 8
C6_Witness ==
    /\ Wrote
    /\ last.latency = 100 /\ last.cpu = 30
    /\ self.latency_threshold_ms = 300 /\ self.cpu_threshold = 70
    /\ self.scale_in_factor = 15 /\ MinReplicas = 2
    /\ last.current_replicas = 10
    /\ last.branch = "in"
    /\ CountAfter = 8

----------------------------------------------------------------------------
(* C7 *)

\* the names of the first n services of the list, in list order
FirstServices(n) == [k \in 1..n |-> services[k].service_name]

\* no exception has left adjust_replicas, and the services evaluated in the
\* current pass are the first ones of the list, each once, in list order
C7_LoopIntact ==
    /\ pc # "crashed"
    /\ ~last.raised
    /\ pc = "for" => idx \in 1..Len(services) /\ evaluated = FirstServices(idx - 1)
    /\ pc = "sleep" => evaluated = FirstServices(Len(services))

\* C7: whatever the metrics backend and the control plane answer, no exception
\* ends the loop, every pass evaluates every service once in list order, and the
\* loop can always take its next step: the next evaluation, or the next pass.
C7_ErrorIsolation ==
    /\ C7_LoopIntact
    /\ pc = "for" => ENABLED Evaluate
    /\ pc = "sleep" => ENABLED Sleep
    /\ pc \in {"for", "sleep"} \/ ~Called

\* the metrics query, the read and the write of the first service all failed,
\* and the loop is at the second service
C7_Witness ==
    /\ pc = "for" /\ idx = 2
    /\ last.deployment = services[1].deployment_name
    /\ ~last.metrics_ok
    /\ last.read = "error"
    /\ last.branch = "in" /\ ~last.scaled
    /\ ~max_replicas_raises

----------------------------------------------------------------------------
(* C8 *)

\* C8: with an unparsable value under any of the seven keys the process ends in
\* __init__: the loop is never entered and adjust_replicas never called.
C8_UnparsableIsFatal ==
    environ.unparsable # "none" => (pc \in {"start", "fatal"} /\ ~Called)

----------------------------------------------------------------------------
(* C9 *)

\* C9: when the read of the current count raises or finds no status count, the
\* decision is taken with 0; a scaling branch whose write succeeds leaves exactly
\* min(max_replicas, min_replicas), whatever the deployment had, and in the dead
\* zone nothing is written.
C9_ReadFailureWritesMin ==
    (Called /\ last.read # "ok") =>
        /\ last.current_replicas = 0
        /\ (last.branch # "none" /\ last.scaled) =>
               CountAfter = Min(MaxReplicas, MinReplicas)
        /\ last.branch = "none" => (~last.scaled /\ CountAfter = last.before)

\* the read raised, the scale-out branch wrote, and a deployment that had more
\* replicas is at min_replicas
C9_Witness ==
    /\ Called /\ last.read = "error"
    /\ last.branch = "out" /\ last.scaled
    /\ last.before > Min(MaxReplicas, MinReplicas)
    /\ CountAfter = Min(MaxReplicas, MinReplicas)

----------------------------------------------------------------------------
(* C10 *)

\* the policies C10 is about
C10_Policy ==
    /\ self.scale_out_factor > 0
    /\ 0 <= MinReplicas
    /\ MinReplicas <= MaxReplicas

\* C10 as stated: under sustained breach, with every read and write succeeding,
\* every deployment eventually is, and stays, at max_replicas.
C10_ReachesMax ==
    \A d \in Deployments :
        C10_Policy => <>[](replicas[d] = MaxReplicas)

\* C10, amended: the same, for a deployment that starts with at least one
\* replica or a policy with min_replicas >= 1.
C10_ReachesMaxFromNonZero ==
    \A d \in Deployments :
        (C10_Policy /\ (MinReplicas >= 1 \/ replicas[d] >= 1)) =>
            <>[](replicas[d] = MaxReplicas)

\* a scale-out has brought a deployment from below max_replicas to max_replicas
C10_Witness ==
    /\ C10_Policy
    /\ Wrote /\ last.branch = "out"
    /\ last.current_replicas < MaxReplicas
    /\ last.current_replicas >= 1
    /\ CountAfter = MaxReplicas

====
